---- MODULE Spec2Model ----
(***************************************************************************)
(* Model of the HunterLab update server: the manifest mutator of           *)
(* publish_update.sh (publish, delete_release; publish also step by step,  *)
(* for runs that overlap), the read handlers of the update server          *)
(* (handleUpdateCheck, GET /api/releases, GET /api/release-notes), its     *)
(* version comparator and its signer of blob URLs.                         *)
(*                                                                         *)
(* Strings that the code only compares for equality are TLA+ strings.      *)
(* Version strings are sequences of one-character strings so that the      *)
(* split / parseInt of isNewerVersion and the string order of jq can be    *)
(* computed.  Blob names are sequences of string fragments, so that the    *)
(* concatenation "<product>-<version>-notes<ext>" can be computed.         *)
(***************************************************************************)
EXTENDS Integers, Sequences, FiniteSets, TLC

VARIABLES manifest, localManifest, blobs, now, ops, last, resp, cmp, runs, writes, sas

vars == <<manifest, localManifest, blobs, now, ops, last, resp, cmp, runs, writes, sas>>

----------------------------------------------------------------------------
(* Bounds                                                                  *)

MaxOps == 2

MaxEntries == 2

MaxRanked == 3

MaxVersionLen == 4

----------------------------------------------------------------------------
(* Characters and version strings                                          *)

Digits == <<"0", "1", "2", "3", "4", "5", "6", "7", "8", "9">>

IsDigit(c) == \E i \in 1..10 : Digits[i] = c

DigitVal(c) == (CHOOSE i \in 1..10 : Digits[i] = c) - 1

\* Code point order of the characters that occur in version strings:
\* "." (0x2E) < digits (0x30..0x39) < lower-case letters.
CharCode(c) == IF c = "." THEN 46
               ELSE IF IsDigit(c) THEN 48 + DigitVal(c)
               ELSE 97

RECURSIVE StrLess(_, _)
\* jq compares strings code point by code point; a proper prefix is smaller.
StrLess(s, t) ==
  IF t = <<>> THEN FALSE
  ELSE IF s = <<>> THEN TRUE
  ELSE IF CharCode(Head(s)) # CharCode(Head(t))
       THEN CharCode(Head(s)) < CharCode(Head(t))
  ELSE StrLess(Tail(s), Tail(t))

V220 == <<"2", ".", "2", ".", "0">>

V230 == <<"2", ".", "3", ".", "0">>

V23 == <<"2", ".", "3">>

V2100 == <<"2", ".", "1", "0", ".", "0">>

V000 == <<"0", ".", "0", ".", "0">>

NoVersion == <<>>

----------------------------------------------------------------------------
(* Version comparator                                                      *)

RECURSIVE split(_)
\* a.split("."): the components between the dots, "" included
split(s) ==
  IF \A i \in 1..Len(s) : s[i] # "." THEN <<s>>
  ELSE LET d == CHOOSE i \in 1..Len(s) :
                  s[i] = "." /\ \A j \in 1..(i - 1) : s[j] # "."
       IN <<SubSeq(s, 1, d - 1)>> \o split(SubSeq(s, d + 1, Len(s)))

RECURSIVE DigitsValue(_, _)
DigitsValue(s, acc) ==
  IF s = <<>> \/ ~IsDigit(Head(s)) THEN acc
  ELSE DigitsValue(Tail(s), acc * 10 + DigitVal(Head(s)))

\* parseInt(n, 10) || 0 : the leading digits, NaN (no leading digit) read as 0
parseIntOrZero(n) == DigitsValue(n, 0)

\* A variant that does not pad the shorter version with zero components.
componentAt_unpadded(p, i) == IF i <= Len(p) THEN parseIntOrZero(p[i]) ELSE 0 - 1

\* ap[i] || 0
componentAt(p, i) == IF i <= Len(p) THEN parseIntOrZero(p[i]) ELSE 0

RECURSIVE compareFrom_noLess(_, _, _)
\* A variant that goes on to the next component when ai < bi.
compareFrom_noLess(ap, bp, i) ==
  IF i > (IF Len(ap) > Len(bp) THEN Len(ap) ELSE Len(bp)) THEN FALSE
  ELSE IF componentAt(ap, i) > componentAt(bp, i) THEN TRUE
  ELSE compareFrom_noLess(ap, bp, i + 1)

RECURSIVE compareFrom(_, _, _)
\* The loop over the components, from the most significant one.
compareFrom(ap, bp, i) ==
  IF i > (IF Len(ap) > Len(bp) THEN Len(ap) ELSE Len(bp)) THEN FALSE
  ELSE IF componentAt(ap, i) > componentAt(bp, i) THEN TRUE
  ELSE IF componentAt(ap, i) < componentAt(bp, i) THEN FALSE
  ELSE compareFrom(ap, bp, i + 1)

\* A variant without the rule for an absent version.
isNewerVersion_noAbsent(a, b) == compareFrom(split(a), split(b), 1)

\* !a || !b: an absent or empty version makes the answer true
isNewerVersion(a, b) ==
  IF a = NoVersion \/ b = NoVersion THEN TRUE
  ELSE compareFrom(split(a), split(b), 1)

\* cmp is a call of isNewerVersion: its arguments and, once it has returned,
\* its result.
MkCmp(a, b, called, result) == [a |-> a, b |-> b, called |-> called, result |-> result]

NoCmp == MkCmp(NoVersion, NoVersion, FALSE, FALSE)

callIsNewerVersion ==
  /\ ~cmp.called
  /\ cmp' = MkCmp(cmp.a, cmp.b, TRUE, isNewerVersion(cmp.a, cmp.b))
  /\ UNCHANGED <<manifest, localManifest, blobs, now, ops, last, resp, runs, writes, sas>>

----------------------------------------------------------------------------
(* Manifest entries                                                        *)

Products == {"desktop", "instrument"}

Models == {"agera", "colorflex"}

Channels == {"production", "preview"}

Platforms == {"windows", "macos", "linux", "default"}

\* An absent string field is "", an absent blob name is <<>>, an absent
\* releaseDate is 0.
NoBlob == <<>>

NoFiles == [p \in Platforms |-> NoBlob]

\* Absent release-notes text and an absent release-notes URL.
NoContent == <<>>

NoUrl == <<>>

\* An entry as publish_update.sh writes it.  Its releaseNotes is the name of
\* the notes blob as a plain string (notesForm "string"), or absent
\* (notesForm "none").
MkEntry(product, model, version, channel, isRequired, file, files, releaseDate, releaseNotes) ==
  [product |-> product, model |-> model, version |-> version,
   channel |-> channel, isRequired |-> isRequired, file |-> file,
   files |-> files, releaseDate |-> releaseDate, releaseNotes |-> releaseNotes,
   notesForm |-> IF releaseNotes = NoBlob THEN "none" ELSE "string",
   notesContent |-> NoContent, notesInline |-> FALSE, notesUrl |-> NoUrl]

\* The entry e with releaseNotes in the form of an object
\* {content, blob, inline, url}: the blob name is kept in releaseNotes, the
\* other members in notesContent, notesInline and notesUrl.
withNotesObject(e, content, blob, inline, url) ==
  [e EXCEPT !.notesForm = "object", !.releaseNotes = blob,
            !.notesContent = content, !.notesInline = inline, !.notesUrl = url]

\* "<product>-<version>-notes<ext>"
notesBlobName(product, version) == <<product, "-">> \o version \o <<"-notes", ".md">>

----------------------------------------------------------------------------
(* Update server: signed URLs                                              *)

\* The configuration read from the environment at start: whether
\* AZURE_STORAGE_CONNECTION_STRING gives an account key, whether
\* AZURE_STORAGE_SAS is set, the text of PER_REQUEST_SAS_TTL_SEC (<<>> when
\* unset) and the container name.
MkSasConfig(accountKey, storageSas, ttlEnv, container) ==
  [accountKey |-> accountKey, storageSas |-> storageSas, ttlEnv |-> ttlEnv,
   container |-> container]

NaN == 0 - 1

\* parseInt(text, 10): the leading digits, NaN without a leading digit
parseInt(text) ==
  IF text = <<>> \/ ~IsDigit(Head(text)) THEN NaN ELSE DigitsValue(text, 0)

\* parseInt(process.env.PER_REQUEST_SAS_TTL_SEC || "900", 10)
perRequestSasTtlSec(cfg) ==
  parseInt(IF cfg.ttlEnv = <<>> THEN <<"9", "0", "0">> ELSE cfg.ttlEnv)

\* process.env.AZURE_STORAGE_CONTAINER || "updates"
containerNameOf(cfg) == IF cfg.container = "" THEN "updates" ELSE cfg.container

\* A variant whose window starts at the time of the request.
sasOptions_noSkew(containerName, blobName, nowMs, ttlSec) ==
  [containerName |-> containerName, blobName |-> blobName, permissions |-> "r",
   startsOn |-> nowMs, expiresOn |-> nowMs + ttlSec * 1000, protocol |-> "https"]

\* The values handed to generateBlobSASQueryParameters; times are
\* milliseconds since the epoch.
sasOptions(containerName, blobName, nowMs, ttlSec) ==
  [containerName |-> containerName, blobName |-> blobName, permissions |-> "r",
   startsOn |-> nowMs - 5 * 60 * 1000, expiresOn |-> nowMs + ttlSec * 1000,
   protocol |-> "https"]

NoToken == sasOptions("", NoBlob, 0, 0)

\* What signBlobUrl returns: a URL with a SAS generated for this request
\* (kind "perRequest", with the values the SAS was generated from), with
\* the SAS of AZURE_STORAGE_SAS appended (kind "static"), or bare
\* (kind "unsigned").
MkSigned(kind, blobName, token) == [kind |-> kind, blobName |-> blobName, token |-> token]

\* signBlobUrl with the configuration and the clock as arguments.  An
\* expiry that is not a date (the TTL is NaN) makes the SAS generation throw,
\* which is caught and falls back like a missing key.
signBlobUrlAt(cfg, blobName, nowMs) ==
  IF cfg.accountKey /\ perRequestSasTtlSec(cfg) # NaN
  THEN MkSigned("perRequest", blobName,
                sasOptions(containerNameOf(cfg), blobName, nowMs, perRequestSasTtlSec(cfg)))
  ELSE IF cfg.storageSas THEN MkSigned("static", blobName, NoToken)
  ELSE MkSigned("unsigned", blobName, NoToken)

NoSigned == MkSigned("none", NoBlob, NoToken)

\* sas is the signer: its configuration and the URL it issued last.
NoSas == [cfg |-> MkSasConfig(FALSE, FALSE, <<>>, ""), issued |-> NoSigned]

\* A call of signBlobUrl.
issue(blobName) ==
  /\ sas.issued = NoSigned
  /\ sas' = [sas EXCEPT !.issued = signBlobUrlAt(sas.cfg, blobName, now)]
  /\ UNCHANGED <<manifest, localManifest, blobs, now, ops, last, resp, cmp, runs, writes>>

----------------------------------------------------------------------------
(* jq: dedup key, string order of keys, unique_by                          *)

\* .product + ":" + (.model // "") + ":" + .version
dedupKey(e) == <<e.product, e.model, e.version>>

\* Alphabetical rank of the enumerated product and model names; "" (absent
\* model) sorts first because ":" precedes every letter.
NameRank(n) ==
  CASE n = "" -> 0
    [] n = "agera" -> 1
    [] n = "colorflex" -> 2
    [] n = "desktop" -> 3
    [] n = "instrument" -> 4
    [] n = "recovery" -> 5
    [] n = "vista" -> 6

\* Order of the concatenated key strings.  No enumerated name is a prefix of
\* another followed by a character below ":", so the order of
\* product ":" model ":" version is the component-wise order.
keyLess(k1, k2) ==
  IF k1[1] # k2[1] THEN NameRank(k1[1]) < NameRank(k2[1])
  ELSE IF k1[2] # k2[2] THEN NameRank(k1[2]) < NameRank(k2[2])
  ELSE StrLess(k1[3], k2[3])

RECURSIVE sortKeys(_)
sortKeys(K) ==
  IF K = {} THEN <<>>
  ELSE LET m == CHOOSE k \in K : \A o \in K \ {k} : keyLess(k, o)
       IN <<m>> \o sortKeys(K \ {m})

firstWithKey(s, k) ==
  s[CHOOSE i \in 1..Len(s) :
      dedupKey(s[i]) = k /\ \A j \in 1..(i - 1) : dedupKey(s[j]) # k]

\* A variant that only appends and never removes duplicates.
unique_by_none(s) == s

\* jq unique_by(f) is [group_by(f)[] | .[0]]: a stable sort by key, then the
\* first element of every group.
unique_by(s) ==
  LET ks == sortKeys({dedupKey(s[i]) : i \in 1..Len(s)})
  IN [n \in 1..Len(ks) |-> firstWithKey(s, ks[n])]

----------------------------------------------------------------------------
(* Manifest document                                                       *)

\* The persisted manifest blob: its JSON shape and, for an array, its
\* elements, for an object, the value of .updates.
MkDoc(shape, updates) == [shape |-> shape, updates |-> updates]

MissingDoc == MkDoc("missing", <<>>)

\* download_manifest: a missing or empty blob reads as {"updates":[]}
download_manifest(m) == IF m.shape = "missing" THEN MkDoc("object", <<>>) ELSE m

\* def toObj: if type=="array" then {updates:.} elif type=="object" then .
\*            else {updates: []} end
toObj(d) ==
  IF d.shape = "array" THEN MkDoc("object", d.updates)
  ELSE IF d.shape = "object" THEN d
  ELSE MkDoc("object", <<>>)

\* toObj | .updates = (((.updates // []) + [$entry]) | unique_by(key))
mergeEntry(d, entry) ==
  MkDoc("object", unique_by(Append(toObj(d).updates, entry)))

----------------------------------------------------------------------------
(* publish_update.sh: publish                                              *)

FileArgs == {<<"a.bin">>, <<"b.bin">>}

WinOnly == [p \in Platforms |-> IF p = "windows" THEN <<"w.exe">> ELSE NoBlob]

AllPlatforms ==
  [p \in Platforms |->
     CASE p = "windows" -> <<"w.exe">>
       [] p = "macos" -> <<"m.pkg">>
       [] p = "linux" -> <<"l.AppImage">>
       [] p = "default" -> <<"d.zip">>]

DesktopFileArgs == {NoFiles, WinOnly, AllPlatforms}

VersionArgs == {V220, V230}

RequiredArgs == {FALSE}

\* Command lines of a publish run: --product --version --model --channel
\* --required --file --windows/--macos/--linux/--default.  --release-date is
\* not given, so the release date is the current time.
PublishArgs ==
  [PRODUCT : {"instrument"}, VERSION : VersionArgs, MODEL : Models,
   CHANNEL : Channels, IS_REQUIRED : RequiredArgs, FILE_SINGLE : FileArgs,
   PATHS : {NoFiles}]
  \cup
  [PRODUCT : {"desktop"}, VERSION : VersionArgs, MODEL : {""},
   CHANNEL : Channels, IS_REQUIRED : RequiredArgs, FILE_SINGLE : {NoBlob},
   PATHS : DesktopFileArgs]

\* The argument checks that exit 1 before anything is uploaded.
publishArgsValid(a) ==
  /\ a.PRODUCT \in {"desktop", "instrument", "recovery"}
  /\ a.VERSION # NoVersion
  /\ IF a.PRODUCT = "desktop" THEN a.PATHS # NoFiles ELSE a.FILE_SINGLE # NoBlob

\* NOTES_BLOB for a notes file whose basename does not contain
\* "<product>-<version>"
NOTES_BLOB(a) == notesBlobName(a.PRODUCT, a.VERSION)

\* The blobs uploaded before the manifest is read.
uploadedBlobs(a) ==
  {NOTES_BLOB(a)} \cup
  (IF a.PRODUCT = "desktop"
   THEN {a.PATHS[p] : p \in Platforms} \ {NoBlob}
   ELSE {a.FILE_SINGLE})

\* ENTRY: desktop entries carry files and no model; the others carry file and,
\* when --model is given, model.
ENTRY(a, nowIso) ==
  IF a.PRODUCT = "desktop"
  THEN MkEntry(a.PRODUCT, "", a.VERSION, a.CHANNEL, a.IS_REQUIRED, NoBlob,
               a.PATHS, nowIso, NOTES_BLOB(a))
  ELSE MkEntry(a.PRODUCT, a.MODEL, a.VERSION, a.CHANNEL, a.IS_REQUIRED,
               a.FILE_SINGLE, NoFiles, nowIso, NOTES_BLOB(a))

NoEntry == MkEntry("", "", NoVersion, "", FALSE, NoBlob, NoFiles, 0, NoBlob)

SelBlank == 0 - 1

SelText == 0 - 2

\* last is the latest run of the script: yes tells whether the operator
\* answered y to the confirmation, calls are the blob names of the
\* blob-delete commands it issued, failed the positions in calls of the
\* commands that failed.
MkLast(op, pre, entry, cands, sel, outcome, chosen, calls) ==
  [op |-> op, pre |-> pre, entry |-> entry, cands |-> cands, sel |-> sel,
   outcome |-> outcome, chosen |-> chosen, calls |-> calls, yes |-> FALSE,
   failed |-> {}]

\* resp is the response of the request being served, NoResp between requests.
NoResp == [kind |-> "none"]

Publish(a) ==
  /\ ops < MaxOps
  /\ publishArgsValid(a)
  /\ LET cur == download_manifest(manifest)
         entry == ENTRY(a, now)
     IN /\ blobs' = blobs \cup uploadedBlobs(a)
        /\ manifest' = mergeEntry(cur, entry)
        /\ last' = MkLast("publish", toObj(cur).updates, entry, <<>>, SelBlank,
                          "done", 0, <<>>)
  /\ now' = now + 1
  /\ ops' = ops + 1
  /\ UNCHANGED <<localManifest, resp, cmp, runs, writes, sas>>

----------------------------------------------------------------------------
(* publish_update.sh: a publish run step by step, and two runs at once      *)

\* The operators (or pipelines) that run the script at the same time.
Writers == {"w1", "w2"}

NoArgs ==
  [PRODUCT |-> "", VERSION |-> NoVersion, MODEL |-> "", CHANNEL |-> "",
   IS_REQUIRED |-> FALSE, FILE_SINGLE |-> NoBlob, PATHS |-> NoFiles]

\* The az storage blob upload commands of a publish run, in script order:
\* the release notes, then --windows, --macos, --linux, --default for
\* desktop, or --file for the other products.
uploadQueue(a) ==
  SelectSeq(IF a.PRODUCT = "desktop"
            THEN <<NOTES_BLOB(a), a.PATHS["windows"], a.PATHS["macos"],
                   a.PATHS["linux"], a.PATHS["default"]>>
            ELSE <<NOTES_BLOB(a), a.FILE_SINGLE>>,
            LAMBDA b : b # NoBlob)

\* A run of the script in publish mode: where it is (idle, uploading, read,
\* done, aborted), its command line, the uploads still to do, the blobs it
\* has uploaded, the ENTRY it built, the manifest it downloaded into
\* TMP_CURRENT, and the number of manifest writes that had happened when it
\* downloaded.
MkRun(pc, args, queue, uploaded, entry, current, readAfter) ==
  [pc |-> pc, args |-> args, queue |-> queue, uploaded |-> uploaded,
   entry |-> entry, current |-> current, readAfter |-> readAfter]

IdleRun == MkRun("idle", NoArgs, <<>>, {}, NoEntry, MissingDoc, 0)

IdleRuns == [w \in Writers |-> IdleRun]

\* The script starts: the argument checks pass and nothing is uploaded yet.
startPublish(w, a) ==
  /\ ops < MaxOps
  /\ runs[w].pc \in {"idle", "done", "aborted"}
  /\ publishArgsValid(a)
  /\ runs' = [runs EXCEPT ![w] = MkRun("uploading", a, uploadQueue(a), {}, NoEntry,
                                       MissingDoc, 0)]
  /\ ops' = ops + 1
  /\ UNCHANGED <<manifest, localManifest, blobs, now, last, resp, cmp, writes, sas>>

\* A variant in which the script goes on after a failed upload.
afterUpload_continue(run, ok) ==
  [run EXCEPT !.queue = Tail(run.queue),
              !.uploaded = IF ok THEN run.uploaded \cup {Head(run.queue)}
                           ELSE run.uploaded]

\* The run after an az storage blob upload command: under set -e a command
\* that fails ends the script.
afterUpload(run, ok) ==
  IF ok THEN [run EXCEPT !.queue = Tail(run.queue),
                         !.uploaded = run.uploaded \cup {Head(run.queue)}]
  ELSE [run EXCEPT !.pc = "aborted"]

\* One az storage blob upload of a notes file or an artifact.
uploadBlob(w, ok) ==
  /\ runs[w].pc = "uploading"
  /\ runs[w].queue # <<>>
  /\ blobs' = IF ok THEN blobs \cup {Head(runs[w].queue)} ELSE blobs
  /\ runs' = [runs EXCEPT ![w] = afterUpload(runs[w], ok)]
  /\ UNCHANGED <<manifest, localManifest, now, ops, last, resp, cmp, writes, sas>>

\* After the last upload: ENTRY is built with the current time and the
\* manifest blob is downloaded into TMP_CURRENT.
readManifest(w) ==
  /\ runs[w].pc = "uploading"
  /\ runs[w].queue = <<>>
  /\ runs' = [runs EXCEPT ![w] = [@ EXCEPT !.pc = "read",
                                           !.entry = ENTRY(runs[w].args, now),
                                           !.current = download_manifest(manifest),
                                           !.readAfter = Len(writes)]]
  /\ now' = now + 1
  /\ UNCHANGED <<manifest, localManifest, blobs, ops, last, resp, cmp, writes, sas>>

\* A variant in which the merge starts from the manifest stored at the time
\* of the write.
writeBase_stored(current, stored) == download_manifest(stored)

\* The document the jq merge starts from: TMP_CURRENT, whatever the blob
\* holds by now.
writeBase(current, stored) == current

\* The jq merge into TMP_NEW and the upload of manifest.json with
\* --overwrite; a failing upload ends the script under set -e.
writeManifest(w, ok) ==
  /\ runs[w].pc = "read"
  /\ IF ok
     THEN /\ manifest' = mergeEntry(writeBase(runs[w].current, manifest), runs[w].entry)
          /\ writes' = Append(writes, w)
          /\ runs' = [runs EXCEPT ![w].pc = "done"]
     ELSE /\ runs' = [runs EXCEPT ![w].pc = "aborted"]
          /\ UNCHANGED <<manifest, writes>>
  /\ UNCHANGED <<localManifest, blobs, now, ops, last, resp, cmp, sas>>

----------------------------------------------------------------------------
(* publish_update.sh: delete_release                                       *)

\* Command lines of a delete run: --product, and the optional filters
\* --version, --channel, --model ("" when not given).
DeleteArgs ==
  [PRODUCT : Products, VERSION : {NoVersion, V230},
   CHANNEL : {""} \cup Channels, MODEL : {"", "agera"}]

\* The filter chain of the three jq programs of delete_release.
matchesFilters(e, f) ==
  /\ e.product = f.PRODUCT
  /\ (f.CHANNEL # "" => (IF e.channel = "" THEN "production" ELSE e.channel) = f.CHANNEL)
  /\ (f.MODEL # "" => e.model = f.MODEL)
  /\ (f.VERSION # NoVersion => e.version = f.VERSION)

RECURSIVE filterSeq(_, _)
filterSeq(s, f) ==
  IF s = <<>> THEN <<>>
  ELSE (IF matchesFilters(Head(s), f) THEN <<Head(s)>> ELSE <<>>)
       \o filterSeq(Tail(s), f)

\* jq to_entries on an array: keys are the 0-based indices of that array
to_entries(s) == [i \in 1..Len(s) |-> [key |-> i - 1, value |-> s[i]]]

NoId == 0 - 1

\* chosen_id: (filtered | to_entries | .[sel - 1].key // empty).  A negative
\* jq index counts from the end; an index outside the array yields null.
chosen_id(upd, f, sel) ==
  LET es == to_entries(filterSeq(upd, f))
      n == Len(es)
      j == IF sel - 1 < 0 THEN sel - 1 + n ELSE sel - 1
  IN IF j < 0 \/ j >= n THEN NoId ELSE es[j + 1].key

\* The blob names read from .[$idx] of the unfiltered array, in the order
\* of the blob_delete_if_exists calls; an empty name issues no call.
blobsOfEntry(e) ==
  SelectSeq(<<e.releaseNotes, e.file, e.files["windows"], e.files["macos"],
              e.files["linux"], e.files["default"]>>,
            LAMBDA b : b # NoBlob)

\* A variant that leaves the entry in place.
removeIndex_keep(upd, idx) == upd

\* (.updates // []) | to_entries | map(select(.key != $idx)) | map(.value)
removeIndex(upd, idx) ==
  [i \in 1..(Len(upd) - 1) |-> IF i - 1 < idx THEN upd[i] ELSE upd[i + 1]]

SeqRange(s) == {s[i] : i \in 1..Len(s)}

\* The operator's answers: the selection typed at the prompt (blank, text
\* that is not a number, or a number) and the answer to the confirmation.
SelArgs(n) == {SelBlank, SelText} \cup 0..(n + 1)

\* Positions (1-based, in the unfiltered array) of the entries listed to the
\* operator, in listing order.
listedPositions(upd, f) ==
  SelectSeq([i \in 1..Len(upd) |-> i], LAMBDA i : matchesFilters(upd[i], f))

\* A variant that deletes without looking at the answer to the confirmation.
deleteOutcome_noConfirm(count, sel, id, yes) ==
  IF count = 0 THEN "nomatch"
  ELSE IF sel = SelBlank THEN "cancelled"
  ELSE IF sel = SelText THEN "invalid"
  ELSE IF id = NoId THEN "outofrange"
  ELSE "done"

\* How far delete_release gets: no release matches the filters; a blank
\* selection; a selection that is not a number; a number that picks no
\* listed release; a declined confirmation; or the deletion.
deleteOutcome(count, sel, id, yes) ==
  IF count = 0 THEN "nomatch"
  ELSE IF sel = SelBlank THEN "cancelled"
  ELSE IF sel = SelText THEN "invalid"
  ELSE IF id = NoId THEN "outofrange"
  ELSE IF ~yes THEN "declined"
  ELSE "done"

\* A variant in which a failing delete command ends the run of the calls.
issuedCalls_untilFailure(calls, failed) ==
  IF failed = {} THEN calls
  ELSE SubSeq(calls, 1, CHOOSE i \in failed : \A j \in failed : i <= j)

\* The blob_delete_if_exists calls that run az storage blob delete: a
\* failing command is followed by || true, so every call is reached.
issuedCalls(calls, failed) == calls

\* The blobs named by the commands that were issued and did not fail.
deletedBlobs(issued, failed) ==
  {issued[i] : i \in {j \in 1..Len(issued) : j \notin failed}}

\* Which of n delete commands fail: none, all, only the first (the later
\* ones still have to run), or only the last.
FailureChoices(n) == {{}, 1..n, {1} \cap 1..n, {n} \cap 1..n}

delete_release(f, sel, yes) ==
  /\ ops < MaxOps
  /\ LET cur == download_manifest(manifest)
         upd == toObj(cur).updates
         cands == listedPositions(upd, f)
         count == Len(filterSeq(upd, f))
         id == chosen_id(upd, f, sel)
         entry == upd[id + 1]
         outcome == deleteOutcome(count, sel, id, yes)
     IN \* the prompts are only read on the paths that reach them
        /\ sel \in SelArgs(count)
        /\ (outcome \in {"nomatch", "cancelled", "invalid", "outofrange"} => yes = FALSE)
        /\ (outcome = "nomatch" => sel = SelBlank)
        /\ IF outcome = "done"
           THEN \* each of the delete commands succeeds or fails
                \E failed \in FailureChoices(Len(blobsOfEntry(entry))) :
                  LET calls == issuedCalls(blobsOfEntry(entry), failed)
                  IN /\ blobs' = blobs \ deletedBlobs(calls, failed)
                     /\ manifest' = MkDoc("object", removeIndex(upd, id))
                     /\ last' = [MkLast("delete", upd, entry, cands, sel, outcome,
                                        id + 1, calls)
                                   EXCEPT !.yes = yes, !.failed = failed]
           ELSE /\ UNCHANGED <<blobs, manifest>>
                /\ last' = MkLast("delete", upd, NoEntry, cands, sel, outcome, 0, <<>>)
  /\ now' = now + 1
  /\ ops' = ops + 1
  /\ UNCHANGED <<localManifest, resp, cmp, runs, writes, sas>>

----------------------------------------------------------------------------
(* Initial manifests                                                       *)

\* A pre-channel, pre-model entry as in the migration guide of UPDATE_API.md.
LegacyEntry ==
  MkEntry("instrument", "", V220, "", FALSE, <<"essentials-update.hunterlab">>,
          NoFiles, 1, NoBlob)

AgeraPreview ==
  MkEntry("instrument", "agera", V230, "preview", FALSE, <<"a.bin">>, NoFiles, 2,
          notesBlobName("instrument", V230))

AgeraProduction ==
  MkEntry("instrument", "agera", V230, "production", FALSE, <<"b.bin">>, NoFiles, 1,
          notesBlobName("instrument", V230))

\* Documents found in the store before the first run of the script: none, an
\* empty one, a legacy object, a legacy bare array, a hand-edited document
\* holding the same product:model:version on both channels, and a document
\* that is neither an array nor an object.
InitDocs ==
  {MissingDoc,
   MkDoc("object", <<>>),
   MkDoc("object", <<LegacyEntry, AgeraPreview>>),
   MkDoc("array", <<LegacyEntry, AgeraPreview>>),
   MkDoc("object", <<AgeraProduction, AgeraPreview>>),
   MkDoc("other", <<>>)}

referencedBlobs(upd) == UNION {SeqRange(blobsOfEntry(upd[i])) : i \in 1..Len(upd)}

FirstNow == 3

Init ==
  /\ manifest \in InitDocs
  /\ localManifest = MissingDoc
  /\ blobs = referencedBlobs(manifest.updates)
  /\ now = FirstNow
  /\ ops = 0
  /\ last = MkLast("none", <<>>, NoEntry, <<>>, SelBlank, "none", 0, <<>>)
  /\ resp = NoResp
  /\ cmp = NoCmp
  /\ runs = IdleRuns
  /\ writes = <<>>
  /\ sas = NoSas

\* Command lines of the runs that overlap.
StepPublishArgs ==
  [PRODUCT : {"instrument"}, VERSION : {V230}, MODEL : Models,
   CHANNEL : Channels, IS_REQUIRED : RequiredArgs, FILE_SINGLE : {<<"a.bin">>},
   PATHS : {NoFiles}]
  \cup
  [PRODUCT : {"desktop"}, VERSION : {V230}, MODEL : {""},
   CHANNEL : {"production"}, IS_REQUIRED : RequiredArgs, FILE_SINGLE : {NoBlob},
   PATHS : {WinOnly, AllPlatforms}]

StepInit ==
  /\ manifest \in {MissingDoc, MkDoc("object", <<LegacyEntry, AgeraPreview>>)}
  /\ localManifest = MissingDoc
  /\ blobs = referencedBlobs(manifest.updates)
  /\ now = FirstNow
  /\ ops = 0
  /\ last = MkLast("none", <<>>, NoEntry, <<>>, SelBlank, "none", 0, <<>>)
  /\ resp = NoResp
  /\ cmp = NoCmp
  /\ runs = IdleRuns
  /\ writes = <<>>
  /\ sas = NoSas

StepNext ==
  \/ \E w \in Writers, a \in StepPublishArgs : startPublish(w, a)
  \/ \E w \in Writers, ok \in BOOLEAN : uploadBlob(w, ok)
  \/ \E w \in Writers : readManifest(w)
  \/ \E w \in Writers, ok \in BOOLEAN : writeManifest(w, ok)

StepSpec == StepInit /\ [][StepNext]_vars

----------------------------------------------------------------------------
(* Array.prototype.sort as executed by the Node 18 runtime of the          *)
(* Dockerfile: for fewer than 64 elements, one run is counted (and         *)
(* reversed when descending) and the rest is placed by binary insertion.   *)
(* c[x][y] is the comparator's result on the elements numbered x and y;    *)
(* the array holds element numbers.                                        *)

RECURSIVE runLengthFrom(_, _, _, _)
\* the loop of CountAndMakeRun: idx is the next position to look at
runLengthFrom(arr, c, isDescending, idx) ==
  IF idx > Len(arr) THEN idx - 1
  ELSE LET order == c[arr[idx]][arr[idx - 1]]
       IN IF (isDescending /\ order >= 0) \/ (~isDescending /\ order < 0)
          THEN idx - 1
          ELSE runLengthFrom(arr, c, isDescending, idx + 1)

reverseRange(arr, n) ==
  [i \in 1..Len(arr) |-> IF i <= n THEN arr[n + 1 - i] ELSE arr[i]]

RECURSIVE insertionPoint(_, _, _, _, _)
\* the binary search of BinaryInsertionSort over positions left..right-1
insertionPoint(arr, c, pivot, left, right) ==
  IF left >= right THEN left
  ELSE LET mid == left + ((right - left) \div 2)
       IN IF c[pivot][arr[mid]] < 0
          THEN insertionPoint(arr, c, pivot, left, mid)
          ELSE insertionPoint(arr, c, pivot, mid + 1, right)

insertAt(arr, start, left) ==
  [i \in 1..Len(arr) |->
     IF i < left \/ i > start THEN arr[i]
     ELSE IF i = left THEN arr[start]
     ELSE arr[i - 1]]

RECURSIVE binaryInsertionSort(_, _, _)
binaryInsertionSort(arr, c, start) ==
  IF start > Len(arr) THEN arr
  ELSE binaryInsertionSort(
         insertAt(arr, start, insertionPoint(arr, c, arr[start], 1, start)),
         c, start + 1)

\* The element numbers 1..n in sorted order.
arraySort(n, c) ==
  LET arr == [i \in 1..n |-> i]
  IN IF n < 2 THEN arr
     ELSE LET isDescending == c[2][1] < 0
              run == runLengthFrom(arr, c, isDescending, 3)
              made == IF isDescending THEN reverseRange(arr, run) ELSE arr
          IN binaryInsertionSort(made, c, run + 1)

----------------------------------------------------------------------------
(* Update server: loading and filtering                                    *)

\* A manifest text that JSON.parse rejects.
CorruptDoc == MkDoc("corrupt", <<>>)

\* A manifest text that parses to a value JavaScript takes for false
\* (null, false, 0, "").
NullDoc == MkDoc("null", <<>>)

\* downloadBlobText / readFileSync followed by JSON.parse return a value
parses(m) == m.shape \notin {"missing", "corrupt"}

\* loadManifest: the parsed manifest blob of the storage account; when it
\* cannot be downloaded or parsed, the parsed local file; when that cannot
\* be read or parsed either, null (MissingDoc).
loadManifest(remote, local) ==
  IF parses(remote) THEN remote
  ELSE IF parses(local) THEN local
  ELSE MissingDoc

\* !manifest
manifestMissing(m) == m.shape \in {"missing", "null"}

\* manifest.updates || [] : only an object has an updates property
manifestUpdates(m) == IF m.shape = "object" THEN m.updates ELSE <<>>

\* u.channel || "production"
channelOf(u) == IF u.channel = "" THEN "production" ELSE u.channel

\* A variant of the filters that leaves the channel filter out.
candidatePositions_anyChannel(upd, product, model, channel) ==
  SelectSeq([i \in 1..Len(upd) |-> i],
            LAMBDA i : /\ upd[i].product = product
                       /\ (model # "" /\ product = "instrument" => upd[i].model = model))

\* A variant of the filters that leaves the model filter out.
candidatePositions_anyModel(upd, product, model, channel) ==
  SelectSeq([i \in 1..Len(upd) |-> i],
            LAMBDA i : /\ upd[i].product = product
                       /\ channelOf(upd[i]) = channel)

\* A variant of the filters in which an entry without model passes every
\* model filter.
candidatePositions_unscoped(upd, product, model, channel) ==
  SelectSeq([i \in 1..Len(upd) |-> i],
            LAMBDA i : /\ upd[i].product = product
                       /\ (model # "" /\ product = "instrument"
                             => upd[i].model \in {model, ""})
                       /\ channelOf(upd[i]) = channel)

\* The three filters shared by handleUpdateCheck, /api/releases and
\* /api/release-notes, as positions in manifest.updates: product, then model
\* (only for instrument and only when a model is given), then channel.
candidatePositions(upd, product, model, channel) ==
  SelectSeq([i \in 1..Len(upd) |-> i],
            LAMBDA i : /\ upd[i].product = product
                       /\ (model # "" /\ product = "instrument" => upd[i].model = model)
                       /\ channelOf(upd[i]) = channel)

candidatesOf(upd, product, model, channel) ==
  LET pos == candidatePositions(upd, product, model, channel)
  IN [i \in 1..Len(pos) |-> upd[pos[i]]]

----------------------------------------------------------------------------
(* Update server: handleUpdateCheck                                        *)

\* The comparator of candidates.sort: releaseDate descending (an absent
\* date counts as 0), then by version.
compareCandidates(a, b) ==
  IF a.releaseDate # b.releaseDate THEN b.releaseDate - a.releaseDate
  ELSE IF isNewerVersion(b.version, a.version) THEN 1 ELSE 0 - 1

\* A variant that takes the first candidate in stored order.
pickLatest_first(cands) == cands[1]

\* candidates.sort(...)[0]
pickLatest(cands) ==
  LET c == [x \in 1..Len(cands) |-> [y \in 1..Len(cands) |->
              compareCandidates(cands[x], cands[y])]]
  IN cands[arraySort(Len(cands), c)[1]]

\* A variant that compares the client's version against the release's.
hasUpdateOf_swapped(scenario, targetVersion, currentVersion) ==
  IF scenario = "no_update" THEN FALSE
  ELSE isNewerVersion(currentVersion, targetVersion)

\* scenario === "no_update" ? false : isNewerVersion(targetVersion, currentVersion)
hasUpdateOf(scenario, targetVersion, currentVersion) ==
  IF scenario = "no_update" THEN FALSE
  ELSE isNewerVersion(targetVersion, currentVersion)

\* What resolveReleaseNotes returns: found is false for null; reads counts
\* the downloads it issued.
MkNotes(found, content, url, reads) ==
  [found |-> found, content |-> content, url |-> url, reads |-> reads]

NoNotes == MkNotes(FALSE, NoContent, NoUrl, 0)

MkResp(kind, req, status, hasUpdate, message, selected, version) ==
  [kind |-> kind, req |-> req, status |-> status, hasUpdate |-> hasUpdate,
   message |-> message, selected |-> selected, version |-> version,
   notes |-> NoNotes]

\* A variant in which the scenario hook is not read.
scenarioOf_ignored(r) == "has_update"

\* process.env.UPDATE_SCENARIO || req.query.scenario || "has_update"
scenarioOf(r) == IF r.scenario = "" THEN "has_update" ELSE r.scenario

\* The response of handleUpdateCheck to a request; selected holds the entry
\* picked from the manifest, if any.
updateCheckResponse(doc, r) ==
  LET scenario == scenarioOf(r)
      targetChannel == IF r.channel = "" THEN "production" ELSE r.channel
      m == loadManifest(doc, localManifest)
      candidates == candidatesOf(manifestUpdates(m), r.product, r.model, targetChannel)
      entry == pickLatest(candidates)
  IN IF scenario = "error"
     THEN MkResp("check", r, 500, FALSE, "Update server temporarily unavailable", <<>>, NoVersion)
     ELSE IF manifestMissing(m)
     THEN MkResp("check", r, 404, FALSE, "No manifest configured", <<>>, NoVersion)
     ELSE IF Len(candidates) = 0
     THEN MkResp("check", r, 200, FALSE, "No updates configured", <<>>, NoVersion)
     ELSE IF ~hasUpdateOf(scenario, entry.version, r.currentVersion)
     THEN MkResp("check", r, 200, FALSE, "You are running the latest version", <<entry>>, NoVersion)
     ELSE MkResp("check", r, 200, TRUE, "", <<entry>>, entry.version)

----------------------------------------------------------------------------
(* Update server: GET /api/releases and GET /api/release-notes             *)

\* u.releaseDate || new Date().toISOString()
listDate(u, nowIso) == IF u.releaseDate = 0 THEN nowIso ELSE u.releaseDate

\* A variant that returns the items in stored order.
releasesResponse_unsorted(doc, r, nowIso) ==
  LET m == loadManifest(doc, localManifest)
      updates == candidatesOf(manifestUpdates(m), r.product, r.model,
                              IF r.channel = "" THEN "production" ELSE r.channel)
  IN IF manifestMissing(m)
     THEN MkResp("releases", r, 404, FALSE, "Manifest not found", <<>>, NoVersion)
     ELSE MkResp("releases", r, 200, FALSE, "", updates, NoVersion)

\* The response of GET /api/releases; selected holds the manifest entries
\* behind the returned items, in the order of the items.
releasesResponse(doc, r, nowIso) ==
  LET m == loadManifest(doc, localManifest)
      updates == candidatesOf(manifestUpdates(m), r.product, r.model,
                              IF r.channel = "" THEN "production" ELSE r.channel)
      c == [x \in 1..Len(updates) |-> [y \in 1..Len(updates) |->
              listDate(updates[y], nowIso) - listDate(updates[x], nowIso)]]
      order == arraySort(Len(updates), c)
  IN IF manifestMissing(m)
     THEN MkResp("releases", r, 404, FALSE, "Manifest not found", <<>>, NoVersion)
     ELSE MkResp("releases", r, 200, FALSE, "",
                 [i \in 1..Len(updates) |-> updates[order[i]]], NoVersion)

\* candidates.find((u) => u.version === version) || candidates[0]
findVersion(candidates, version) ==
  IF version # NoVersion /\ \E i \in 1..Len(candidates) : candidates[i].version = version
  THEN candidates[CHOOSE i \in 1..Len(candidates) :
                    /\ candidates[i].version = version
                    /\ \A j \in 1..(i - 1) : candidates[j].version # version]
  ELSE candidates[1]

\* process.env.AZURE_STORAGE_ACCOUNT is set.
storageAccount == TRUE

\* `https://${accountName}.blob.core.windows.net/${containerName}/${blobName}`
buildBlobUrl(blobName) == <<"https://account.blob.core.windows.net/updates/">> \o blobName

\* The blob URL with a SAS query appended.
signBlobUrl(blobName) == buildBlobUrl(blobName) \o <<"?sas">>

\* downloadBlobText: the text of a blob of the store; the download of a
\* blob that is not there throws.
downloadThrows(blobName, store) == blobName \notin store

downloadBlobText(blobName) == <<"text of ">> \o blobName

\* resolveReleaseNotes of the server with channels: the notes blob named by
\* the entry (as a string, as releaseNotes.blob or as releaseNotesBlob) is
\* downloaded; without a name, or when the download fails, the result is
\* null.
resolveReleaseNotes(entry, store) ==
  LET blobName == entry.releaseNotes
  IN IF storageAccount /\ blobName # NoBlob
     THEN IF downloadThrows(blobName, store)
          THEN MkNotes(FALSE, NoContent, NoUrl, 1)
          ELSE MkNotes(TRUE, downloadBlobText(blobName), NoUrl, 1)
     ELSE NoNotes

\* The response of GET /api/release-notes; selected holds the entry whose
\* notes are looked up.
releaseNotesResponse(doc, r, store) ==
  LET m == loadManifest(doc, localManifest)
      candidates == candidatesOf(manifestUpdates(m), r.product, r.model,
                                 IF r.channel = "" THEN "production" ELSE r.channel)
      entry == findVersion(candidates, r.version)
      rn == resolveReleaseNotes(entry, store)
  IN IF manifestMissing(m)
     THEN MkResp("notes", r, 404, FALSE, "Manifest not found", <<>>, NoVersion)
     ELSE IF Len(candidates) = 0
     THEN MkResp("notes", r, 404, FALSE, "No release notes configured", <<>>, NoVersion)
     ELSE IF ~rn.found
     THEN [MkResp("notes", r, 404, FALSE, "Release notes not available", <<entry>>, NoVersion)
             EXCEPT !.notes = rn]
     ELSE [MkResp("notes", r, 200, FALSE, "", <<entry>>, entry.version)
             EXCEPT !.notes = rn]

----------------------------------------------------------------------------
(* update_server.js: resolveReleaseNotes and GET /api/release-notes        *)

\* The URL names a blob of this account's container and carries no query.
unsignedOwnUrl(url) ==
  /\ Len(url) >= 2
  /\ url[1] = "https://account.blob.core.windows.net/updates/"
  /\ url[Len(url)] # "?sas"

\* resolveReleaseNotes of update_server.js: inline content first; then the
\* blob named by releaseNotes.blob (or releaseNotesBlob) as a signed URL,
\* with the downloaded text when releaseNotes.inline is true and the
\* download succeeds; then releaseNotes.url, signed when it names a blob of
\* this account without a query; else null.  A releaseNotes that is a
\* plain string has none of these members.
legacyResolveReleaseNotes(entry, store) ==
  LET isObject == entry.notesForm = "object"
      blobName == IF isObject THEN entry.releaseNotes ELSE NoBlob
      explicitUrl == IF isObject THEN entry.notesUrl ELSE NoUrl
  IN IF isObject /\ entry.notesContent # NoContent
     THEN MkNotes(TRUE, entry.notesContent, NoUrl, 0)
     ELSE IF storageAccount /\ blobName # NoBlob
     THEN IF entry.notesInline
          THEN IF downloadThrows(blobName, store)
               THEN MkNotes(TRUE, NoContent, signBlobUrl(blobName), 1)
               ELSE MkNotes(TRUE, downloadBlobText(blobName), signBlobUrl(blobName), 1)
          ELSE MkNotes(TRUE, NoContent, signBlobUrl(blobName), 0)
     ELSE IF explicitUrl # NoUrl
     THEN IF storageAccount /\ unsignedOwnUrl(explicitUrl)
          THEN MkNotes(TRUE, NoContent, signBlobUrl(Tail(explicitUrl)), 0)
          ELSE MkNotes(TRUE, NoContent, explicitUrl, 0)
     ELSE NoNotes

\* The response of GET /api/release-notes of update_server.js, which
\* filters by product only.
legacyReleaseNotesResponse(doc, r, store) ==
  LET m == loadManifest(doc, localManifest)
      all == manifestUpdates(m)
      pos == SelectSeq([i \in 1..Len(all) |-> i], LAMBDA i : all[i].product = r.product)
      candidates == [i \in 1..Len(pos) |-> all[pos[i]]]
      entry == findVersion(candidates, r.version)
      rn == legacyResolveReleaseNotes(entry, store)
  IN IF manifestMissing(m)
     THEN MkResp("legacyNotes", r, 404, FALSE, "Manifest not found", <<>>, NoVersion)
     ELSE IF Len(candidates) = 0
     THEN MkResp("legacyNotes", r, 404, FALSE, "No release notes configured", <<>>, NoVersion)
     ELSE IF ~rn.found
     THEN [MkResp("legacyNotes", r, 404, FALSE, "Release notes not available", <<entry>>,
                  NoVersion) EXCEPT !.notes = rn]
     ELSE [MkResp("legacyNotes", r, 200, FALSE, "", <<entry>>, entry.version)
             EXCEPT !.notes = rn]

----------------------------------------------------------------------------
(* Requests to the server                                                  *)

ModelArgs == {""} \cup Models

ChannelArgs == {""} \cup Channels

CurrentVersionArgs == {NoVersion, V220, V230}

ScenarioArgs == {"", "has_update", "no_update", "forced", "error", "staging"}

MkReq(product, model, channel, currentVersion, scenario, version) ==
  [product |-> product, model |-> model, version |-> version,
   channel |-> channel, scenario |-> scenario, currentVersion |-> currentVersion]

handleUpdateCheck(r) ==
  /\ resp = NoResp
  /\ resp' = updateCheckResponse(manifest, r)
  /\ UNCHANGED <<manifest, localManifest, blobs, now, ops, last, cmp, runs, writes, sas>>

getReleases(r) ==
  /\ resp = NoResp
  /\ resp' = releasesResponse(manifest, r, now)
  /\ UNCHANGED <<manifest, localManifest, blobs, now, ops, last, cmp, runs, writes, sas>>

getReleaseNotes(r) ==
  /\ resp = NoResp
  /\ resp' = releaseNotesResponse(manifest, r, blobs)
  /\ UNCHANGED <<manifest, localManifest, blobs, now, ops, last, cmp, runs, writes, sas>>

getLegacyReleaseNotes(r) ==
  /\ resp = NoResp
  /\ resp' = legacyReleaseNotesResponse(manifest, r, blobs)
  /\ UNCHANGED <<manifest, localManifest, blobs, now, ops, last, cmp, runs, writes, sas>>

\* The response has been sent and the server waits for the next request.
requestDone ==
  /\ resp # NoResp
  /\ resp' = NoResp
  /\ UNCHANGED <<manifest, localManifest, blobs, now, ops, last, cmp, runs, writes, sas>>

\* Update checks with every model and channel and no scenario, and with
\* every scenario and no model and channel.
DoUpdateCheck ==
  \/ \E p \in Products, m \in ModelArgs, ch \in ChannelArgs, cv \in CurrentVersionArgs :
       handleUpdateCheck(MkReq(p, m, ch, cv, "", NoVersion))
  \/ \E p \in Products, cv \in CurrentVersionArgs, sc \in ScenarioArgs :
       handleUpdateCheck(MkReq(p, "", "", cv, sc, NoVersion))

DoGetReleases ==
  \E p \in Products, m \in ModelArgs, ch \in ChannelArgs :
    getReleases(MkReq(p, m, ch, NoVersion, "", NoVersion))

DoGetReleaseNotes ==
  \E p \in Products, m \in ModelArgs, ch \in ChannelArgs, v \in {NoVersion, V220, V230} :
    getReleaseNotes(MkReq(p, m, ch, NoVersion, "", v))

DoGetLegacyReleaseNotes ==
  \E p \in Products, v \in {NoVersion, V230} :
    getLegacyReleaseNotes(MkReq(p, "", "", NoVersion, "", v))

----------------------------------------------------------------------------
(* Manifests served                                                        *)

\* Entries that differ in what the filters look at.
FilterEntries ==
  {MkEntry("instrument", m, V230, ch, FALSE, <<"a.bin">>, NoFiles, 1,
           notesBlobName("instrument", V230)) : m \in ModelArgs, ch \in ChannelArgs}
  \cup
  {MkEntry("desktop", "", V230, ch, FALSE, NoBlob, WinOnly, 1,
           notesBlobName("desktop", V230)) : ch \in ChannelArgs}

\* Entries of one product and channel that differ in what the ranking looks
\* at: release date (0 when absent) and version.
RankEntries ==
  {MkEntry("desktop", "", v, "production", FALSE, NoBlob, WinOnly, d,
           notesBlobName("desktop", v)) : v \in {V220, V230, V23}, d \in {1, 2}}
  \cup
  {MkEntry("desktop", "", V2100, "production", FALSE, NoBlob, WinOnly, 0,
           notesBlobName("desktop", V2100))}

\* A first release numbered 0.0.0.
ZeroEntry ==
  MkEntry("desktop", "", V000, "production", FALSE, NoBlob, WinOnly, 1,
          notesBlobName("desktop", V000))

SeqsUpTo(S, n) == UNION {[1..k -> S] : k \in 0..n}

ServedDocs ==
  InitDocs
  \cup {MkDoc("object", s) : s \in SeqsUpTo(FilterEntries, MaxEntries)}
  \cup {MkDoc("object", s) : s \in SeqsUpTo(RankEntries, MaxRanked)}
  \cup {MkDoc("object", <<ZeroEntry>>)}

ExternalUrl == <<"https://hunterlab.example/notes.md">>

\* One release with each form of release notes: the name of a blob as a
\* plain string; literal content, alone and
\* next to a blob name and a URL; a blob to be sent inline, and one to be
\* linked; a URL elsewhere, and the unsigned URL of a blob of this account.
NotesEntries ==
  LET e == MkEntry("desktop", "", V230, "production", FALSE, NoBlob, WinOnly, 1, NoBlob)
      n == notesBlobName("desktop", V230)
  IN {MkEntry("desktop", "", V230, "production", FALSE, NoBlob, WinOnly, 1, n),
      withNotesObject(e, <<"What is new">>, NoBlob, FALSE, NoUrl),
      withNotesObject(e, <<"What is new">>, n, TRUE, ExternalUrl),
      withNotesObject(e, NoContent, n, TRUE, NoUrl),
      withNotesObject(e, NoContent, n, FALSE, NoUrl),
      withNotesObject(e, NoContent, NoBlob, FALSE, ExternalUrl),
      withNotesObject(e, NoContent, NoBlob, FALSE, buildBlobUrl(n))}

NotesDocs == {MkDoc("object", <<e>>) : e \in NotesEntries}

\* What the storage account and the local file can hold when the blob of
\* the storage account does not always give a manifest.
RemoteDocs ==
  {MissingDoc, CorruptDoc, NullDoc, MkDoc("object", <<AgeraProduction, AgeraPreview>>)}

LocalDocs ==
  {MissingDoc, CorruptDoc, NullDoc, MkDoc("object", <<LegacyEntry, AgeraPreview>>)}

ServerInit ==
  /\ \/ /\ manifest \in ServedDocs /\ localManifest = MissingDoc
        /\ blobs = referencedBlobs(manifest.updates)
     \/ /\ manifest \in RemoteDocs /\ localManifest \in LocalDocs
        /\ blobs = referencedBlobs(manifest.updates)
                     \cup referencedBlobs(localManifest.updates)
     \* the notes blob of a release may be gone from the store
     \/ /\ manifest \in NotesDocs
        /\ localManifest = MissingDoc
        /\ blobs \in {referencedBlobs(manifest.updates), {}}
  /\ now = FirstNow
  /\ ops = 0
  /\ last = MkLast("none", <<>>, NoEntry, <<>>, SelBlank, "none", 0, <<>>)
  /\ resp = NoResp
  /\ cmp = NoCmp
  /\ runs = IdleRuns
  /\ writes = <<>>
  /\ sas = NoSas

ServerNext ==
  DoUpdateCheck \/ DoGetReleases \/ DoGetReleaseNotes \/ DoGetLegacyReleaseNotes
    \/ requestDone

ServerSpec == ServerInit /\ [][ServerNext]_vars

DoPublish == \E a \in PublishArgs : Publish(a)

DoDelete ==
  \E f \in DeleteArgs, sel \in SelArgs(MaxOps + 2), yes \in BOOLEAN :
    delete_release(f, sel, yes)

Next == DoPublish \/ DoDelete

Spec == Init /\ [][Next]_vars

----------------------------------------------------------------------------
(* Calls of isNewerVersion                                                 *)

VersionChars == {"0", "1", "."}

\* Every string of at most MaxVersionLen characters, the empty one and the
\* malformed ones included, and versions with other digits and with a letter.
ComparedVersions ==
  SeqsUpTo(VersionChars, MaxVersionLen)
  \cup {V220, V230, V23, V2100, <<"1", ".", "0", ".", "0">>,
        <<"9">>, <<"1", "0">>, <<"2", ".", "x">>, <<"2", ".", "3", "b">>}

VersionInit ==
  /\ manifest = MissingDoc
  /\ localManifest = MissingDoc
  /\ blobs = {}
  /\ now = FirstNow
  /\ ops = 0
  /\ last = MkLast("none", <<>>, NoEntry, <<>>, SelBlank, "none", 0, <<>>)
  /\ resp = NoResp
  /\ cmp \in {MkCmp(a, b, FALSE, FALSE) : a, b \in ComparedVersions}
  /\ runs = IdleRuns
  /\ writes = <<>>
  /\ sas = NoSas

VersionNext == callIsNewerVersion

VersionSpec == VersionInit /\ [][VersionNext]_vars

----------------------------------------------------------------------------
(* Calls of signBlobUrl                                                    *)

TtlEnvArgs ==
  {<<>>, <<"9", "0", "0">>, <<"6", "0">>, <<"3", "6", "0", "0">>, <<"0">>,
   <<"1", "5", "m">>, <<"a", "b", "c">>}

\* Clock readings in milliseconds, the epoch and a time less than five
\* minutes after it included.
ClockArgs == {0, 1000, 300000, 1700000000}

SignedBlobArgs ==
  {<<"a.bin">>, <<"w.exe">>, notesBlobName("desktop", V230), <<"manifest.json">>}

SignInit ==
  /\ manifest \in {MissingDoc, MkDoc("object", <<AgeraProduction, AgeraPreview>>)}
  /\ localManifest = MissingDoc
  /\ blobs = referencedBlobs(manifest.updates)
  /\ now \in ClockArgs
  /\ ops = 0
  /\ last = MkLast("none", <<>>, NoEntry, <<>>, SelBlank, "none", 0, <<>>)
  /\ resp = NoResp
  /\ cmp = NoCmp
  /\ runs = IdleRuns
  /\ writes = <<>>
  /\ sas \in {[cfg |-> MkSasConfig(k, st, t, c), issued |-> NoSigned] :
                k \in BOOLEAN, st \in BOOLEAN, t \in TtlEnvArgs, c \in {"", "staging"}}

SignNext == \E b \in SignedBlobArgs : issue(b)

SignSpec == SignInit /\ [][SignNext]_vars

----------------------------------------------------------------------------
(* Properties of publish and delete (checked under Spec)                   *)

keyPositions(upd, k) == {i \in 1..Len(upd) : dedupKey(upd[i]) = k}

hasEntry(doc, e) == \E i \in 1..Len(doc.updates) : doc.updates[i] = e

hasKey(doc, k) == \E i \in 1..Len(doc.updates) : dedupKey(doc.updates[i]) = k

\* s without its element at position p
without(s, p) == [i \in 1..(Len(s) - 1) |-> IF i < p THEN s[i] ELSE s[i + 1]]

\* C1: when a publish follows a publish with the same dedup key
\* product:model:version, the persisted manifest holds exactly one entry
\* with that key and it is the entry of the second publish.
C1_SecondPublishWins ==
  [][(/\ last.op = "publish"
      /\ last'.op = "publish"
      /\ ops' = ops + 1
      /\ dedupKey(last'.entry) = dedupKey(last.entry))
     => (/\ Cardinality(keyPositions(manifest'.updates, dedupKey(last'.entry))) = 1
         /\ \A i \in keyPositions(manifest'.updates, dedupKey(last'.entry)) :
              manifest'.updates[i] = last'.entry)]_vars

\* C2: a confirmed delete in which the operator picks number k of the n
\* listed candidates (1 <= k <= n) removes exactly the k-th listed entry
\* from the unfiltered manifest.
C2_DeleteRemovesChosen ==
  (last.op = "delete" /\ last.outcome = "done" /\ last.sel \in 1..Len(last.cands))
  => manifest.updates = without(last.pre, last.cands[last.sel])

\* C3: a confirmed delete leaves a manifest that is one entry shorter and
\* whose entries are the previous ones, less one, in the same order.
C3_DeleteRemovesExactlyOne ==
  (last.op = "delete" /\ last.outcome = "done")
  => /\ manifest.shape = "object"
     /\ Len(manifest.updates) = Len(last.pre) - 1
     /\ \E p \in 1..Len(last.pre) : manifest.updates = without(last.pre, p)

C3_Witness ==
  /\ last.op = "delete" /\ last.outcome = "done"
  /\ Len(last.pre) >= 2
  /\ last.chosen < Len(last.pre)

\* C4: a confirmed delete issues a delete call for every object name the
\* entry picked by the operator references (release notes, file, and each of
\* files.windows/macos/linux/default), and for no other object name.
C4_DeleteCascadesChosen ==
  (last.op = "delete" /\ last.outcome = "done" /\ last.sel \in 1..Len(last.cands))
  => SeqRange(last.calls) = referencedBlobs(<<last.pre[last.cands[last.sel]]>>)

\* C5: after a publish the persisted manifest holds at most one entry per
\* dedup key, whatever the manifest held before.
C5_UniqueKeysAfterPublish ==
  (last.op = "publish")
  => \A i, j \in 1..Len(manifest.updates) :
       dedupKey(manifest.updates[i]) = dedupKey(manifest.updates[j]) => i = j

C5_Witness ==
  /\ last.op = "publish"
  /\ \E i, j \in 1..Len(last.pre) :
       i # j /\ dedupKey(last.pre[i]) = dedupKey(last.pre[j])
  /\ Len(manifest.updates) >= 2

\* C6: an entry that a publish put into the manifest is still in it, with
\* the same content, after a publish with a different dedup key and after a
\* delete in which the operator picked a different entry or cancelled.
C6_PublishedEntryStays ==
  [][(/\ last.op = "publish"
      /\ \E i \in 1..Len(manifest.updates) : manifest.updates[i] = last.entry
      /\ ops' = ops + 1
      /\ \/ last'.op = "publish" /\ dedupKey(last'.entry) # dedupKey(last.entry)
         \/ last'.op = "delete" /\ last'.outcome # "done"
         \/ /\ last'.op = "delete" /\ last'.outcome = "done"
            /\ last'.sel \in 1..Len(last'.cands)
            /\ last'.pre[last'.cands[last'.sel]] # last.entry)
     => \E i \in 1..Len(manifest'.updates) : manifest'.updates[i] = last.entry]_vars

\* C19: a delete run that ends at a blank selection or at a declined
\* confirmation issues no blob-delete command and leaves the stored
\* manifest and the blobs exactly as they were.
C19_CancelChangesNothing ==
  [][(last'.op = "delete" /\ (last'.sel = SelBlank \/ ~last'.yes))
     => /\ last'.calls = <<>>
        /\ manifest' = manifest
        /\ blobs' = blobs]_vars

\* A declined delete on a legacy bare-array manifest, which any write of
\* the script would have turned into an object.
C19_Witness ==
  /\ last.op = "delete" /\ last.outcome = "declined"
  /\ Len(last.cands) >= 1
  /\ manifest.shape = "array" /\ manifest.updates = last.pre
  /\ referencedBlobs(manifest.updates) \subseteq blobs

\* C20: in a confirmed delete, whichever of the blob-delete commands fail,
\* a command is issued for every blob the removed entry names, the blobs of
\* the commands that did not fail are gone, and the manifest is rewritten
\* without the entry.
C20_BestEffortCascade ==
  (last.op = "delete" /\ last.outcome = "done")
  => /\ last.calls = blobsOfEntry(last.entry)
     /\ last.failed \subseteq 1..Len(last.calls)
     /\ \A i \in 1..Len(last.calls) : i \notin last.failed => last.calls[i] \notin blobs
     /\ manifest = MkDoc("object", without(last.pre, last.chosen))

\* Every delete command failed: the blobs are all still there and the
\* manifest has lost the entry.
C20_Witness ==
  /\ last.op = "delete" /\ last.outcome = "done"
  /\ Len(last.calls) >= 2 /\ last.failed = 1..Len(last.calls)
  /\ SeqRange(last.calls) \subseteq blobs
  /\ Len(manifest.updates) = Len(last.pre) - 1

\* C25: a publish of product, model and version on one channel, into a
\* manifest that holds the same product, model and version on the other
\* channel, leaves both entries in the manifest: the one just published and
\* the one of the other channel.
C25_ChannelsIndependent ==
  last.op = "publish"
  => \A i \in 1..Len(last.pre) :
       (/\ dedupKey(last.pre[i]) = dedupKey(last.entry)
        /\ last.pre[i].channel # "" /\ last.pre[i].channel # last.entry.channel)
       => /\ hasEntry(manifest, last.entry)
          /\ hasEntry(manifest, last.pre[i])

\* C27: a delete run in which the operator's answer is not a number from 1
\* to the number of listed releases (text, 0, a greater number, or any
\* answer when nothing is listed) issues no blob-delete command and leaves
\* the stored manifest and the blobs as they were; with nothing listed the
\* run reports that no release matches.
C27_InvalidSelectionChangesNothing ==
  [][(last'.op = "delete" /\ ops' = ops + 1 /\ last'.sel \notin 1..Len(last'.cands))
     => /\ last'.calls = <<>>
        /\ manifest' = manifest
        /\ blobs' = blobs
        /\ last'.outcome # "done"
        /\ Len(last'.cands) = 0 => last'.outcome = "nomatch"]_vars

\* C28: after a confirmed delete, every blob that an entry remaining in the
\* manifest names (as release notes, file or one of files) and that was in
\* the store before the delete is still in the store.
C28_NoDanglingAfterDelete ==
  [][(last'.op = "delete" /\ ops' = ops + 1 /\ last'.outcome = "done")
     => \A b \in referencedBlobs(manifest'.updates) : b \in blobs => b \in blobs']_vars

----------------------------------------------------------------------------
(* Properties of publish runs step by step (checked under StepSpec)        *)

\* Runs w and v have both downloaded the same manifest, before either
\* uploaded its own, w then wrote and v wrote last; both ran to the end of
\* the script (no command failed); their dedup keys differ and v's key was
\* not in the manifest it downloaded.
bothReadThenWrote(w, v) ==
  /\ w # v
  /\ runs[w].pc = "done" /\ runs[v].pc = "done"
  /\ runs[w].readAfter = runs[v].readAfter
  /\ Len(writes) >= 2
  /\ writes[Len(writes) - 1] = w /\ writes[Len(writes)] = v
  /\ dedupKey(runs[w].entry) # dedupKey(runs[v].entry)
  /\ ~hasKey(runs[v].current, dedupKey(runs[v].entry))

\* C21: when two publish runs with different dedup keys both download the
\* manifest before either uploads it, then after both have finished without
\* an error the stored manifest is the one the later writer computed from
\* its own download: it holds the later writer's entry and not the earlier
\* writer's.
C21_LostUpdate ==
  \A w, v \in Writers :
    bothReadThenWrote(w, v)
    => /\ manifest = mergeEntry(runs[v].current, runs[v].entry)
       /\ hasEntry(manifest, runs[v].entry)
       /\ ~hasEntry(manifest, runs[w].entry)

\* agera and colorflex published at once into the same manifest: only one
\* of them is in it afterwards.
C21_Witness ==
  \E w, v \in Writers :
    /\ bothReadThenWrote(w, v)
    /\ runs[w].args.MODEL = "agera" /\ runs[v].args.MODEL = "colorflex"
    /\ runs[w].args.CHANNEL = runs[v].args.CHANNEL
    /\ runs[w].current = runs[v].current
    /\ hasEntry(manifest, runs[v].entry)
    /\ ~hasKey(manifest, dedupKey(runs[w].entry))

\* C29: a publish run downloads the manifest only when every upload of its
\* command line (the release notes and each artifact) has succeeded; a
\* failed upload ends the run before it has built an entry, with the stored
\* manifest unchanged; and every change of the stored manifest is the
\* write of a run that had uploaded every blob its entry names, the
\* changed manifest holding nothing but that entry and entries of the
\* manifest the run downloaded.
C29_UploadsBeforeManifest ==
  [][/\ \A w \in Writers :
          /\ (runs[w].pc # "read" /\ runs'[w].pc = "read")
               => /\ runs[w].uploaded = SeqRange(uploadQueue(runs[w].args))
                  /\ runs[w].uploaded \subseteq blobs
          /\ (runs[w].pc = "uploading" /\ runs'[w].pc = "aborted")
               => /\ manifest' = manifest
                  /\ runs'[w].entry = NoEntry
                  /\ runs'[w].queue # <<>>
     /\ manifest' # manifest
          => \E w \in Writers :
               /\ runs[w].pc = "read" /\ runs'[w].pc = "done"
               /\ referencedBlobs(<<runs[w].entry>>) \subseteq runs[w].uploaded
               /\ \A i \in 1..Len(manifest'.updates) :
                    \/ manifest'.updates[i] = runs[w].entry
                    \/ hasEntry(runs[w].current, manifest'.updates[i])]_vars

\* The upload of the release notes succeeded and the upload of the
\* artifact failed: the notes blob is in the store, the run is over and
\* the manifest is still missing.
C29_Witness ==
  \E w \in Writers :
    /\ runs[w].pc = "aborted"
    /\ runs[w].uploaded = {NOTES_BLOB(runs[w].args)}
    /\ runs[w].queue = <<runs[w].args.FILE_SINGLE>>
    /\ runs[w].uploaded \subseteq blobs
    /\ runs[w].entry = NoEntry
    /\ manifest = MissingDoc

----------------------------------------------------------------------------
(* Properties of the read handlers (checked under ServerSpec)              *)

\* A non-empty version whose components are all non-empty digit strings.
wellFormed(v) ==
  /\ v # NoVersion
  /\ \A i \in 1..Len(v) : v[i] = "." \/ IsDigit(v[i])
  /\ v[1] # "." /\ v[Len(v)] # "."
  /\ \A i \in 1..(Len(v) - 1) : ~(v[i] = "." /\ v[i + 1] = ".")

served == resp.kind \in {"check", "releases", "notes"}

\* The manifest the handlers work with.
loaded == loadManifest(manifest, localManifest)

requestedChannel == IF resp.req.channel = "" THEN "production" ELSE resp.req.channel

effectiveChannel(e) == IF e.channel = "" THEN "production" ELSE e.channel

\* The manifest entries that match the request's product, model (for
\* instrument, when given) and channel.
matching ==
  {i \in 1..Len(loaded.updates) :
     /\ loaded.shape = "object"
     /\ loaded.updates[i].product = resp.req.product
     /\ (resp.req.product = "instrument" /\ resp.req.model # ""
           => loaded.updates[i].model = resp.req.model)
     /\ effectiveChannel(loaded.updates[i]) = requestedChannel}

\* C7: every entry selected by an update check, returned by the release
\* listing or used for a release-notes lookup is on the requested channel,
\* where an entry or a request without a channel is on "production".
C7_ChannelIsolation ==
  served => \A i \in 1..Len(resp.selected) :
              effectiveChannel(resp.selected[i]) = requestedChannel

C7_Witness ==
  /\ served
  /\ resp.req.channel = "preview"
  /\ Len(resp.selected) >= 1
  /\ \E i \in 1..Len(loaded.updates) :
       /\ loaded.updates[i].product = resp.req.product
       /\ loaded.updates[i].model = resp.selected[1].model
       /\ loaded.updates[i].channel \in {"", "production"}

\* C8: for product instrument with a model in the request, every entry
\* selected, listed or used for notes has that model; for another product
\* the model in the request filters nothing: the listing returns every entry
\* of the product and channel, and a check or notes lookup that selects an
\* entry does so whenever such an entry exists.
C8_ModelScoping ==
  served =>
    /\ (resp.req.product = "instrument" /\ resp.req.model # "")
         => \A i \in 1..Len(resp.selected) : resp.selected[i].model = resp.req.model
    /\ (resp.req.product # "instrument" /\ resp.req.model # "" /\ resp.status = 200)
         => LET pool == {i \in 1..Len(loaded.updates) :
                           /\ loaded.shape = "object"
                           /\ loaded.updates[i].product = resp.req.product
                           /\ effectiveChannel(loaded.updates[i]) = requestedChannel}
            IN /\ SeqRange(resp.selected) \subseteq {loaded.updates[i] : i \in pool}
               /\ resp.kind = "releases" => Len(resp.selected) = Cardinality(pool)
               /\ pool # {} => Len(resp.selected) >= 1

\* Scenario 3: agera and colorflex entries of one version, colorflex asked.
C8_Witness ==
  /\ served
  /\ resp.req.product = "instrument" /\ resp.req.model = "colorflex"
  /\ Len(resp.selected) = 1
  /\ Len(loaded.updates) = 2
  /\ loaded.updates[1].model = "agera" /\ loaded.updates[2].model = "colorflex"
  /\ loaded.updates[1].version = loaded.updates[2].version
  /\ effectiveChannel(loaded.updates[1]) = effectiveChannel(loaded.updates[2])

\* C9: an update check that gets as far as filtering selects, among a
\* non-empty set of matching entries, one with the greatest releaseDate such
\* that no matching entry of that same date has a newer version; with no
\* matching entry it selects nothing and answers hasUpdate=false,
\* "No updates configured".
C9_SelectionRanking ==
  (resp.kind = "check" /\ resp.req.scenario # "error" /\ ~manifestMissing(loaded))
  => IF matching = {}
     THEN resp.selected = <<>> /\ resp.hasUpdate = FALSE
          /\ resp.message = "No updates configured"
     ELSE /\ Len(resp.selected) = 1
          /\ \E i \in matching : loaded.updates[i] = resp.selected[1]
          /\ \A i \in matching :
               /\ loaded.updates[i].releaseDate <= resp.selected[1].releaseDate
               /\ loaded.updates[i].releaseDate = resp.selected[1].releaseDate
                    => ~isNewerVersion(loaded.updates[i].version,
                                       resp.selected[1].version)

C9_Witness ==
  /\ resp.kind = "check" /\ Len(resp.selected) = 1
  /\ Cardinality(matching) >= 3
  /\ resp.selected[1] # loaded.updates[1]
  /\ \E i \in matching :
       /\ loaded.updates[i].releaseDate = resp.selected[1].releaseDate
       /\ isNewerVersion(resp.selected[1].version, loaded.updates[i].version)
  /\ \E i \in matching :
       loaded.updates[i].releaseDate < resp.selected[1].releaseDate

Scenario1Entry ==
  MkEntry("desktop", "", V230, "production", FALSE, NoBlob, WinOnly, 1,
          notesBlobName("desktop", V230))

\* C10: with the default scenario, an update check that selected an entry
\* answers hasUpdate=true with that entry's version exactly when the entry's
\* version is newer than currentVersion, and hasUpdate=false otherwise; with
\* one desktop production entry 2.3.0, a 2.2.0 client is offered 2.3.0 and a
\* 2.3.0 client is offered nothing.
C10_Applicability ==
  (resp.kind = "check" /\ resp.req.scenario = "")
  => /\ Len(resp.selected) = 0 => resp.hasUpdate = FALSE
     /\ Len(resp.selected) = 1 =>
          /\ resp.hasUpdate = isNewerVersion(resp.selected[1].version,
                                             resp.req.currentVersion)
          /\ resp.hasUpdate => resp.version = resp.selected[1].version
     /\ (/\ manifest = MkDoc("object", <<Scenario1Entry>>)
         /\ resp.req.product = "desktop" /\ resp.req.channel = "production")
        => /\ resp.req.currentVersion = V220 => resp.hasUpdate /\ resp.version = V230
           /\ resp.req.currentVersion = V230 => ~resp.hasUpdate

C10_Witness ==
  /\ resp.kind = "check" /\ resp.req.scenario = ""
  /\ manifest = MkDoc("object", <<Scenario1Entry>>)
  /\ resp.req.product = "desktop" /\ resp.req.channel = "production"
  /\ resp.req.currentVersion = V220
  /\ resp.hasUpdate /\ resp.version = V230

\* C11: an update check with scenario "error" answers with the failure
\* "Update server temporarily unavailable" whatever the manifest is, missing
\* or not, and selects no entry; with scenario "no_update" it answers
\* hasUpdate=false for every manifest and currentVersion; with any other
\* scenario (none, has_update, forced, or a value the server does not know)
\* an entry that was selected is offered exactly when its version is newer
\* than currentVersion.
C11_ScenarioOverrides ==
  resp.kind = "check" =>
    /\ resp.req.scenario = "error"
         => /\ resp.status = 500 /\ resp.hasUpdate = FALSE
            /\ resp.message = "Update server temporarily unavailable"
            /\ resp.selected = <<>>
    /\ resp.req.scenario = "no_update" => resp.hasUpdate = FALSE
    /\ resp.req.scenario \notin {"error", "no_update"}
         => /\ resp.status # 500
            /\ Len(resp.selected) = 1
                 => resp.hasUpdate = isNewerVersion(resp.selected[1].version,
                                                    resp.req.currentVersion)

\* No manifest can be loaded, and the error scenario still answers first.
C11_Witness ==
  /\ resp.kind = "check" /\ resp.req.scenario = "error"
  /\ loaded.shape = "missing"
  /\ resp.status = 500

\* C14: isNewerVersion is true whenever one of its arguments is absent, so
\* with the default scenario an update check without currentVersion
\* answers hasUpdate=true, with the selected entry's version, whenever an
\* entry matches the request.
C14_MissingBaseline ==
  (resp.kind = "check" /\ resp.req.scenario \in {"", "has_update"}
     /\ resp.req.currentVersion = NoVersion)
  => /\ matching # {}
          => /\ resp.hasUpdate = TRUE
             /\ Len(resp.selected) = 1 /\ resp.version = resp.selected[1].version
     /\ \A v \in {NoVersion} \cup CurrentVersionArgs
                \cup {loaded.updates[i].version : i \in 1..Len(loaded.updates)} :
          isNewerVersion(v, NoVersion) /\ isNewerVersion(NoVersion, v)

\* The only release is 0.0.0, which no component-wise comparison with an
\* empty baseline would call newer.
C14_Witness ==
  /\ resp.kind = "check" /\ resp.req.scenario = ""
  /\ resp.req.currentVersion = NoVersion
  /\ manifest = MkDoc("object", <<ZeroEntry>>)
  /\ resp.hasUpdate = TRUE /\ resp.version = V000

\* C15: every handler answers as it would for the normalised manifest: a
\* bare array read as {updates: <the array>}, an object as it is, and any
\* other value as {updates: []}.
C15_NormalizedOnLoad ==
  (served /\ parses(loaded))
  => resp = CASE resp.kind = "check" -> updateCheckResponse(toObj(loaded), resp.req)
              [] resp.kind = "releases" -> releasesResponse(toObj(loaded), resp.req, now)
              [] resp.kind = "notes" -> releaseNotesResponse(toObj(loaded), resp.req, blobs)

\* C16: no handler answers with an internal error; a handler answers that
\* there is no manifest only when neither the blob of the storage account
\* nor the local file can be read and parsed; it works with the blob
\* whenever that can be read and parsed, else with the local file; and an
\* update check that finds no manifest answers 404, hasUpdate=false,
\* "No manifest configured".
C16_LoadNeverFails ==
  (served /\ resp.req.scenario # "error")
  => /\ resp.status # 500
     /\ resp.message \in {"No manifest configured", "Manifest not found"}
          => ~parses(manifest) /\ ~parses(localManifest)
     /\ loaded = IF parses(manifest) THEN manifest
                 ELSE IF parses(localManifest) THEN localManifest ELSE MissingDoc
     /\ (resp.kind = "check" /\ ~parses(manifest) /\ ~parses(localManifest))
          => /\ resp.status = 404 /\ resp.hasUpdate = FALSE
             /\ resp.message = "No manifest configured"

notesServed == resp.kind \in {"notes", "legacyNotes"} /\ Len(resp.selected) = 1

\* C17: a release-notes lookup whose entry carries literal content answers
\* with exactly that content and issues no download, whether or not the
\* entry also names a blob or a URL.
C17_InlineContentVerbatim ==
  (notesServed /\ resp.selected[1].notesContent # NoContent)
  => /\ resp.status = 200 /\ resp.notes.found
     /\ resp.notes.content = resp.selected[1].notesContent
     /\ resp.notes.reads = 0

\* C18: a release-notes lookup issues at most one download; when the entry
\* names a notes blob to be sent inline and the download fails, the lookup
\* still answers with the signed URL of that blob, without content.
C18_ReadBudgetAndDegradation ==
  notesServed
  => /\ resp.notes.reads <= 1
     /\ (/\ resp.selected[1].notesContent = NoContent
         /\ resp.selected[1].releaseNotes # NoBlob
         /\ resp.selected[1].notesInline
         /\ downloadThrows(resp.selected[1].releaseNotes, blobs))
        => /\ resp.status = 200 /\ resp.notes.found
           /\ resp.notes.url = signBlobUrl(resp.selected[1].releaseNotes)
           /\ resp.notes.content = NoContent

\* C22: a release-notes lookup without a version uses the matching entry
\* with the greatest releaseDate, wherever that entry stands in the manifest.
C22_NotesDefaultLatest ==
  (resp.kind = "notes" /\ resp.req.version = NoVersion /\ Len(resp.selected) = 1)
  => /\ \E i \in matching : loaded.updates[i] = resp.selected[1]
     /\ \A i \in matching :
          loaded.updates[i].releaseDate <= resp.selected[1].releaseDate

unscoped ==
  {i \in 1..Len(loaded.updates) :
     /\ loaded.shape = "object"
     /\ loaded.updates[i].product = "instrument"
     /\ loaded.updates[i].model = ""
     /\ effectiveChannel(loaded.updates[i]) = requestedChannel}

\* C24 as stated: under every model filter an instrument entry without a
\* model is still a candidate: the listing returns it, and an update check
\* or a release-notes lookup finds a candidate to select.
C24_UnscopedMatchesAny ==
  (served /\ resp.req.product = "instrument" /\ resp.req.model # ""
     /\ resp.req.scenario # "error" /\ unscoped # {})
  => /\ resp.kind = "releases"
          => \A i \in unscoped : loaded.updates[i] \in SeqRange(resp.selected)
     /\ resp.kind \in {"check", "notes"} => Len(resp.selected) = 1

\* C24 as amended: an instrument entry without a model is a candidate when
\* the request gives no model, and is excluded under every model filter: it
\* is never selected, listed or used for notes then, and when only such
\* entries are stored the answer is the one for no matching entry.
C24_UnscopedOnlyWithoutModel ==
  (served /\ resp.req.product = "instrument" /\ resp.req.scenario # "error"
     /\ unscoped # {})
  => /\ resp.req.model # ""
          => /\ \A k \in 1..Len(resp.selected) : resp.selected[k].model # ""
             /\ matching = {} => resp.selected = <<>>
     /\ resp.req.model = ""
          => /\ resp.kind = "releases"
                  => \A i \in unscoped : loaded.updates[i] \in SeqRange(resp.selected)
             /\ resp.kind \in {"check", "notes"} => Len(resp.selected) = 1

\* agera is asked for; the manifest holds an entry without model and an
\* agera entry on the same channel, and only the agera entry is listed.
C24_Witness ==
  /\ resp.kind = "releases" /\ resp.req.product = "instrument"
  /\ resp.req.model = "agera"
  /\ unscoped # {}
  /\ Len(loaded.updates) = 2 /\ Len(resp.selected) = 1
  /\ resp.selected[1].model = "agera"

\* C30: with the default scenario and a well-formed currentVersion, an
\* update check answers hasUpdate=true whenever some entry matching the
\* request's product, model and channel has a version newer than
\* currentVersion.
C30_NoMissedUpdates ==
  (/\ resp.kind = "check" /\ resp.req.scenario = ""
   /\ wellFormed(resp.req.currentVersion)
   /\ \E i \in matching :
        isNewerVersion(loaded.updates[i].version, resp.req.currentVersion))
  => resp.hasUpdate = TRUE

----------------------------------------------------------------------------
(* Properties of signBlobUrl (checked under SignSpec)                      *)

\* The TTL in seconds that the configuration asks for: 900 when none is
\* configured.
configuredTtl ==
  IF sas.cfg.ttlEnv = <<>> THEN 900 ELSE DigitsValue(sas.cfg.ttlEnv, 0)

\* The account key is configured and the configured TTL, if any, starts
\* with a digit.
canSign ==
  /\ sas.cfg.accountKey
  /\ sas.cfg.ttlEnv # <<>> => IsDigit(sas.cfg.ttlEnv[1])

\* C26: a call of signBlobUrl at clock reading T, with the account key and
\* a TTL of ttl seconds configured (900 by default), generates a SAS with
\* read permission only, for the configured container and the blob asked
\* for, that starts at T minus five minutes and expires at T plus ttl; the
\* call changes neither the manifest nor the blobs.
C26_SignedWindow ==
  [][sas'.issued # sas.issued
     => /\ canSign
             => /\ sas'.issued.kind = "perRequest"
                /\ sas'.issued.token.permissions = "r"
                /\ sas'.issued.token.containerName
                     = (IF sas.cfg.container = "" THEN "updates" ELSE sas.cfg.container)
                /\ sas'.issued.token.blobName = sas'.issued.blobName
                /\ sas'.issued.token.startsOn = now - 300000
                /\ sas'.issued.token.expiresOn = now + configuredTtl * 1000
        /\ manifest' = manifest /\ localManifest' = localManifest
        /\ blobs' = blobs /\ now' = now]_vars

\* The default TTL: a window from five minutes before to fifteen minutes
\* after the clock reading.
C26_Witness ==
  /\ sas.cfg.accountKey /\ sas.cfg.ttlEnv = <<>>
  /\ now = 1700000000
  /\ sas.issued.kind = "perRequest"
  /\ sas.issued.blobName = <<"a.bin">> /\ <<"a.bin">> \in blobs
  /\ sas.issued.token.startsOn = 1699700000
  /\ sas.issued.token.expiresOn = 1700900000

----------------------------------------------------------------------------
(* Properties of isNewerVersion (checked under VersionSpec)                *)

\* The number written by component i of v, 0 past the last component.
valueAt(v, i) == IF i <= Len(split(v)) THEN DigitsValue(split(v)[i], 0) ELSE 0

\* a and b are equal once the shorter is padded with zero components.
paddedEqual(a, b) ==
  \A i \in 1..(Len(a) + Len(b)) : valueAt(a, i) = valueAt(b, i)

\* C12: for well-formed versions a and b that differ after zero-padding,
\* exactly one of isNewerVersion(a, b) and isNewerVersion(b, a) is true.
C12_Antisymmetry ==
  (cmp.called /\ wellFormed(cmp.a) /\ wellFormed(cmp.b) /\ ~paddedEqual(cmp.a, cmp.b))
  => cmp.result # isNewerVersion(cmp.b, cmp.a)

\* 2.10.0 against 2.3.0: newer by number, though smaller as a string.
C12_Witness ==
  /\ cmp.called /\ cmp.a = V2100 /\ cmp.b = V230
  /\ cmp.result = TRUE /\ ~isNewerVersion(cmp.b, cmp.a)

\* C13: isNewerVersion(a, a) is false for every well-formed a, and
\* isNewerVersion(a, b) is false for well-formed a and b that are equal
\* after padding the shorter with zero components.
C13_Irreflexivity ==
  (cmp.called /\ wellFormed(cmp.a) /\ wellFormed(cmp.b) /\ paddedEqual(cmp.a, cmp.b))
  => cmp.result = FALSE

\* "1.0" against "1.0.0".
C13_Witness ==
  /\ cmp.called
  /\ cmp.a = <<"1", ".", "0">> /\ cmp.b = <<"1", ".", "0", ".", "0">>
  /\ cmp.result = FALSE

====
